---- MODULE Spec2Model ----
(***************************************************************************)
(* Model of the retrieval-indexing pipeline of germany-grocery-scout:      *)
(*   src/src/engine.py  _create_new_vector_store, get_vector_store         *)
(*   src/src/engine.py  get_chat_engine, main_chat_loop                    *)
(*   src/src/model_loader.py  initialise_llm, get_embedding_model          *)
(*   src/app.py         load_rag_engine, main (the chat turn and the       *)
(*                      sessions of the Streamlit page)                    *)
(*                                                                         *)
(* Text is a sequence of one-character strings, so that str.replace,       *)
(* str.upper and the f-string of the injector are computed as Python       *)
(* computes them.  A metadata dict is a function whose DOMAIN is the set   *)
(* of keys present; Documents hold a reference into `heap`, so that two    *)
(* Documents sharing one dict object is something the model can express.   *)
(***************************************************************************)
EXTENDS Integers, Sequences, FiniteSets, TLC

\* ------------------------------------------------------------------ bounds
MaxDocs == 2        \* Documents the parser yields in one build
MaxCalls == 2       \* calls of get_vector_store in one run
MaxParts == 3       \* pieces a file name is put together from (SpecName)
MaxTurns == 2       \* chat turns in one run (SpecChat)
MaxTokens == 2      \* increments of one streamed answer (SpecChat)
MaxSessions == 2    \* UI sessions open against one server process (SpecSessions)
MaxSessionTurns == 2 \* chat turns of one UI session (SpecSessions)

\* -------------------------------------------------------------------- text
Lower == <<"a","b","c","d","e","f","g","h","i","j","k","l","m",
           "n","o","p","q","r","s","t","u","v","w","x","y","z">>
Upper == <<"A","B","C","D","E","F","G","H","I","J","K","L","M",
           "N","O","P","Q","R","S","T","U","V","W","X","Y","Z">>

\* str.upper() on one character
UpperChar(c) ==
    IF \E i \in 1..26 : Lower[i] = c
    THEN Upper[CHOOSE i \in 1..26 : Lower[i] = c]
    ELSE c

\* str.upper()
StrUpper(s) == [i \in 1..Len(s) |-> UpperChar(s[i])]

\* s.endswith(p)
EndsWith(s, p) == Len(s) >= Len(p) /\ SubSeq(s, Len(s) - Len(p) + 1, Len(s)) = p

\* s.replace(old, ""): every non-overlapping occurrence of old, found left to
\* right, is removed (old is never empty here).
RECURSIVE StrRemoveAll(_, _)
StrRemoveAll(s, old) ==
    IF Len(s) < Len(old) THEN s
    ELSE IF SubSeq(s, 1, Len(old)) = old
         THEN StrRemoveAll(SubSeq(s, Len(old) + 1, Len(s)), old)
         ELSE <<s[1]>> \o StrRemoveAll(Tail(s), old)

DOT_PDF == <<".","p","d","f">>
DOT_MD == <<".","m","d">>
UNKNOWN_DEFAULT == <<"U","n","k","n","o","w","n">>
\* "\U0001F6D2 STORE OFFER FROM: " (the cart emoji is one character)
STORE_MARKER == <<"U+1F6D2"," ","S","T","O","R","E"," ","O","F","F","E","R",
                  " ","F","R","O","M",":"," ">>
NEWLINES == <<"\n","\n">>

\* A variant of the derivation that forgets to uppercase.
StoreNameNoUpper(filename) ==
    StrRemoveAll(StrRemoveAll(filename, DOT_PDF), DOT_MD)

\* engine.py:128  filename.replace(".pdf", "").replace(".md", "").upper()
StoreNameOf(filename) ==
    StrUpper(StrRemoveAll(StrRemoveAll(filename, DOT_PDF), DOT_MD))

\* engine.py:127  doc.metadata.get("file_name", "Unknown")
FileNameOf(metadata) ==
    IF "file_name" \in DOMAIN metadata THEN metadata["file_name"]
    ELSE UNKNOWN_DEFAULT

\* engine.py:134  f"{marker}{store_name}\n\n{original_text}"
NewContent(store_name, original_text) ==
    STORE_MARKER \o store_name \o NEWLINES \o original_text

\* d[k] = v on a dict
DictSet(d, k, v) ==
    [x \in (DOMAIN d) \cup {k} |-> IF x = k THEN v ELSE d[x]]

EmptyDict == [x \in {} |-> <<>>]


\* ------------------------------------------------------------ program data
CHUNK_SIZE == 512
CHUNK_OVERLAP == 50

ALDI_PDF == <<"a","l","d","i",".","p","d","f">>
LIDL_MD == <<"l","i","d","l",".","m","d">>

\* What the directory reader can yield for one file or page: its text and the
\* metadata dict the reader attached (with or without a file_name entry).
SourceDocs ==
    { [text |-> <<"x">>, metadata |-> [k \in {"file_name"} |-> ALDI_PDF]],
      [text |-> <<"y","z">>, metadata |-> [k \in {"file_name"} |-> LIDL_MD]],
      [text |-> <<"x">>, metadata |-> EmptyDict] }

RECURSIVE SeqsUpTo(_, _)
SeqsUpTo(S, n) ==
    IF n = 0 THEN {<<>>}
    ELSE LET shorter == SeqsUpTo(S, n - 1)
         IN shorter \cup {Append(q, x) : q \in {r \in shorter : Len(r) = n - 1}, x \in S}

\* The entries of the vector-store directory: the files persist() writes, in
\* the order it writes them, and one file persist() never writes.
IndexFileSeq == <<"docstore.json", "index_store.json", "vector_store.json">>
IndexFiles == {IndexFileSeq[i] : i \in 1..Len(IndexFileSeq)}
OtherFile == "other"
Files == IndexFiles \cup {OtherFile}

Absent == [kind |-> "absent"]
Garbage == [kind |-> "garbage"]
NoIndex == [kind |-> "none"]

VARIABLES
    USE_LLAMAPARSE,        \* engine.py:49, the parsing toggle
    LLAMA_CLOUD_API_KEY,   \* TRUE iff os.getenv("LLAMA_CLOUD_API_KEY") is truthy
    data_dir,              \* what the reader yields from DATA_PATH
    vs_exists,             \* VECTOR_STORE_PATH exists
    vs_files,              \* VECTOR_STORE_PATH: file name -> content
    pc,                    \* position inside get_vector_store / the build
    strategy,              \* parser strategy that produced `documents`
    documents,             \* the parser's Documents (line 79..109)
    augmented_documents,   \* line 123; `documents` after the swap of line 150
    heap,                  \* the metadata dict objects, by reference
    index,                 \* the index under construction
    result,                \* what get_vector_store returned
    error,                 \* the exception that left get_vector_store
    stages,                \* the steps this call has executed, in order
    build_calls,           \* calls of _create_new_vector_store in this call
    load_failed,           \* the load of this call raised
    dir_at_call,           \* VECTOR_STORE_PATH's entries when the call began
    parsed_snapshot,       \* text and metadata of `documents` as parsed
    calls                  \* calls of get_vector_store so far

VARIABLES
    filename_in,           \* SpecName: the file name under derivation
    store_name_out,        \* SpecName: the derived store name
    name_pc                \* SpecName: "pending" | "derived"

VARIABLES
    messages,              \* app.py: st.session_state.messages
    messages_before,       \* messages when the current turn began
    turn_pc,               \* position inside step 6 of main()
    stream,                \* increments the response generator still holds
    full_response,         \* app.py:265
    turns                  \* chat turns begun

VARIABLES
    GOOGLE_API_KEY,        \* os.getenv("GOOGLE_API_KEY"): "unset" | "empty" | "set"
    startup_pc,            \* position inside main_chat_loop / load_rag_engine
    llm,                   \* the language-model handle, or "none"
    embed_model,           \* the embedding model, or "none"
    embed_cache_exists,    \* EMBEDDING_CACHE_PATH exists
    chat_engine,           \* what get_chat_engine returned, or NoEngine
    startup_error          \* the exception that left the construction

VARIABLES
    engine_cache,          \* st.cache_resource's entry for load_rag_engine: 0 or an engine
    engines,               \* the chat engines built so far: each one's memory
    sess_engine,           \* per UI session: the engine main() holds, or 0
    sess_pc,               \* per UI session: "new" | "idle" | "streaming"
    sess_prompt,           \* per UI session: the prompt in flight
    sess_own               \* per UI session: the turns this session completed

builder_vars == <<USE_LLAMAPARSE, LLAMA_CLOUD_API_KEY, data_dir, vs_exists,
                  vs_files, pc, strategy, documents, augmented_documents, heap,
                  index, result, error, stages, build_calls, load_failed,
                  dir_at_call, parsed_snapshot, calls>>
name_vars == <<filename_in, store_name_out, name_pc>>
chat_vars == <<messages, messages_before, turn_pc, stream, full_response, turns>>
startup_vars == <<GOOGLE_API_KEY, startup_pc, llm, embed_model,
                  embed_cache_exists, chat_engine, startup_error>>
session_vars == <<engine_cache, engines, sess_engine, sess_pc, sess_prompt, sess_own>>
extra_vars == <<startup_vars, session_vars>>
vars == <<builder_vars, name_vars, chat_vars, extra_vars>>

\* ------------------------------------------------------- get_vector_store
\* A variant that tests only that the directory exists.
IsPopulatedExistsOnly(exists, files) == exists

\* engine.py:206  any(VECTOR_STORE_PATH.iterdir())
IsPopulated(exists, files) ==
    exists /\ \E f \in Files : files[f].kind # "absent"

\* engine.py:209-215  StorageContext.from_defaults + load_index_from_storage:
\* the load can succeed only on a directory whose index files all hold one and
\* the same persisted index; anything else raises.
Loadable(files) ==
    /\ \A f \in IndexFiles : files[f].kind = "index"
    /\ \A f, g \in IndexFiles : files[f] = files[g]

LoadedIndex(files) == files[IndexFileSeq[1]]

\* A variant of the except clause that gives up instead of rebuilding.
OnLoadErrorGiveUp == "raised"

\* engine.py:216-219  except Exception: return _create_new_vector_store(...)
OnLoadError == "parse"

\* engine.py:82  USE_LLAMAPARSE and os.getenv("LLAMA_CLOUD_API_KEY")
ParserStrategy(toggle, key) ==
    IF toggle /\ key THEN "llamaparse" ELSE "standard"

\* A variant of the check that lets an empty list through.
NoDocumentsNever(docs) == FALSE

\* engine.py:111  not documents
NoDocuments(docs) == Len(docs) = 0

\* engine.py:137-140  Document(text=..., metadata=doc.metadata): the model
\* class validates its fields, which builds a dict of its own from the one
\* passed in.
NewDocument(h, text, ref) ==
    [heap |-> Append(h, h[ref]), doc |-> [text |-> text, meta |-> Len(h) + 1]]

\* A variant of the loop body that records the store name on the parsed
\* Document's own dict as well.
InjectOneMutatesInput(h, doc) ==
    LET store_name == StoreNameOf(FileNameOf(h[doc.meta]))
        nd == NewDocument(h, NewContent(store_name, doc.text), doc.meta)
    IN [heap |-> [nd.heap EXCEPT ![nd.doc.meta] = DictSet(@, "store_name", store_name),
                                 ![doc.meta] = DictSet(@, "store_name", store_name)],
        doc |-> nd.doc]

\* A variant of the loop body that prepends the marker twice.
InjectOneTwice(h, doc) ==
    LET store_name == StoreNameOf(FileNameOf(h[doc.meta]))
        nd == NewDocument(h, NewContent(store_name,
                  NewContent(store_name, doc.text)), doc.meta)
    IN [heap |-> [nd.heap EXCEPT ![nd.doc.meta] = DictSet(@, "store_name", store_name)],
        doc |-> nd.doc]

\* engine.py:125-147  the body of the injection loop for one Document
InjectOne(h, doc) ==
    LET filename == FileNameOf(h[doc.meta])
        store_name == StoreNameOf(filename)
        original_text == doc.text
        new_content == NewContent(store_name, original_text)
        nd == NewDocument(h, new_content, doc.meta)
    IN [heap |-> [nd.heap EXCEPT ![nd.doc.meta] = DictSet(@, "store_name", store_name)],
        doc |-> nd.doc]

\* engine.py:123-150  the loop: augmented_documents in the order of documents
RECURSIVE InjectAll(_, _, _)
InjectAll(h, docs, out) ==
    IF docs = <<>> THEN [heap |-> h, out |-> out]
    ELSE LET r == InjectOne(h, Head(docs))
         IN InjectAll(r.heap, Tail(docs), Append(out, r.doc))

\* engine.py:155  if USE_LLAMAPARSE: MarkdownNodeParser else SentenceSplitter
ChunkPolicy(toggle) ==
    IF toggle THEN [splitter |-> "markdown"]
    ELSE [splitter |-> "sentence", chunk_size |-> CHUNK_SIZE,
          chunk_overlap |-> CHUNK_OVERLAP]

\* engine.py:159-177  the nodes of the index: every Document's text with the
\* metadata it carries (the split of one text into several nodes is not
\* modelled: a Document stands for its nodes).
BuildIndex(policy, docs, h) ==
    [kind |-> "index", policy |-> policy,
     nodes |-> [i \in 1..Len(docs) |->
                  [text |-> docs[i].text, metadata |-> h[docs[i].meta]]]]

\* A persist that leaves the last file unwritten and reports success.
PersistFilesShort(files, idx, k) ==
    [f \in Files |->
        IF \E i \in 1..(k - 1) : IndexFileSeq[i] = f THEN idx ELSE files[f]]

\* engine.py:183  index.storage_context.persist: the first k files written
PersistFiles(files, idx, k) ==
    [f \in Files |->
        IF \E i \in 1..k : IndexFileSeq[i] = f THEN idx ELSE files[f]]

\* The Documents of a reader result, allocated on the heap.
RECURSIVE Allocate(_, _, _)
Allocate(h, src, out) ==
    IF src = <<>> THEN [heap |-> h, out |-> out]
    ELSE Allocate(Append(h, Head(src).metadata), Tail(src),
                  Append(out, [text |-> Head(src).text, meta |-> Len(h) + 1]))

\* text and metadata values of a list of Documents
Snapshot(h, docs) ==
    [i \in 1..Len(docs) |-> [text |-> docs[i].text, metadata |-> h[docs[i].meta]]]

Raise(e) ==
    /\ pc' = "raised"
    /\ error' = e
    /\ result' = NoIndex

\* engine.py:188-221, up to the dispatch of line 206
GetVectorStore ==
    /\ pc \in {"idle", "returned", "raised"}
    /\ calls < MaxCalls
    /\ calls' = calls + 1
    /\ vs_exists' = TRUE
    /\ dir_at_call' = vs_files
    /\ load_failed' = FALSE
    /\ result' = NoIndex
    /\ error' = "none"
    /\ strategy' = "none"
    /\ documents' = <<>>
    /\ augmented_documents' = <<>>
    /\ parsed_snapshot' = <<>>
    /\ heap' = <<>>
    /\ index' = NoIndex
    /\ IF IsPopulated(TRUE, vs_files)
       THEN /\ pc' = "load"
            /\ stages' = <<"load">>
            /\ build_calls' = 0
       ELSE /\ pc' = "parse"
            /\ stages' = <<"build">>
            /\ build_calls' = 1
    /\ UNCHANGED <<name_vars, chat_vars, extra_vars, USE_LLAMAPARSE,
                   LLAMA_CLOUD_API_KEY, data_dir, vs_files>>

\* engine.py:209-215  the load returns the persisted index
LoadReturns ==
    /\ pc = "load"
    /\ Loadable(vs_files)
    /\ result' = LoadedIndex(vs_files)
    /\ pc' = "returned"
    /\ UNCHANGED <<name_vars, chat_vars, extra_vars, USE_LLAMAPARSE,
                   LLAMA_CLOUD_API_KEY, data_dir, vs_exists,
                   vs_files, strategy, documents, augmented_documents, heap,
                   index, error, stages, build_calls, load_failed, dir_at_call,
                   parsed_snapshot, calls>>

\* engine.py:216-219  the load raised (on an unusable directory it must; on a
\* usable one it still can: an I/O error, a mismatching embedding model)
LoadRaises ==
    /\ pc = "load"
    /\ load_failed' = TRUE
    /\ IF OnLoadError = "parse"
       THEN /\ pc' = "parse"
            /\ build_calls' = build_calls + 1
            /\ stages' = Append(stages, "build")
            /\ UNCHANGED <<error, result>>
       ELSE /\ Raise("LoadError")
            /\ UNCHANGED <<build_calls, stages>>
    /\ UNCHANGED <<name_vars, chat_vars, extra_vars, USE_LLAMAPARSE,
                   LLAMA_CLOUD_API_KEY, data_dir, vs_exists,
                   vs_files, strategy, documents, augmented_documents, heap,
                   index, dir_at_call, parsed_snapshot, calls>>

\* engine.py:79-109  the reader yields the Documents, or raises
Parse ==
    /\ pc = "parse"
    /\ strategy' = ParserStrategy(USE_LLAMAPARSE, LLAMA_CLOUD_API_KEY)
    /\ \/ /\ LET a == Allocate(<<>>, data_dir, <<>>)
             IN /\ heap' = a.heap
                /\ documents' = a.out
                /\ parsed_snapshot' = Snapshot(a.heap, a.out)
          /\ pc' = "check"
          /\ stages' = Append(stages, "parse")
          /\ UNCHANGED <<error, result>>
       \/ /\ Raise("ParserError")
          /\ UNCHANGED <<heap, documents, parsed_snapshot, stages>>
    /\ UNCHANGED <<name_vars, chat_vars, extra_vars, USE_LLAMAPARSE,
                   LLAMA_CLOUD_API_KEY, data_dir, vs_exists,
                   vs_files, augmented_documents, index, build_calls,
                   load_failed, dir_at_call, calls>>

\* engine.py:111-114
CheckDocuments ==
    /\ pc = "check"
    /\ IF NoDocuments(documents)
       THEN Raise("ValueError")
       ELSE /\ pc' = "inject"
            /\ UNCHANGED <<error, result>>
    /\ UNCHANGED <<name_vars, chat_vars, extra_vars, USE_LLAMAPARSE,
                   LLAMA_CLOUD_API_KEY, data_dir, vs_exists,
                   vs_files, strategy, documents, augmented_documents, heap,
                   index, stages, build_calls, load_failed, dir_at_call,
                   parsed_snapshot, calls>>

\* engine.py:119-150
Inject ==
    /\ pc = "inject"
    /\ LET r == InjectAll(heap, documents, <<>>)
       IN /\ heap' = r.heap
          /\ augmented_documents' = r.out
    /\ stages' = Append(stages, "inject")
    /\ pc' = "index"
    /\ UNCHANGED <<name_vars, chat_vars, extra_vars, USE_LLAMAPARSE,
                   LLAMA_CLOUD_API_KEY, data_dir, vs_exists,
                   vs_files, strategy, documents, index, result, error,
                   build_calls, load_failed, dir_at_call, parsed_snapshot, calls>>

\* A variant of the build that writes the index files while it is still
\* embedding, so that a failed embedding has already touched the directory.
CreateIndexPersistsEarly ==
    /\ pc = "index"
    /\ stages' = Append(stages, "chunk")
    /\ \/ /\ index' = BuildIndex(ChunkPolicy(USE_LLAMAPARSE), augmented_documents, heap)
          /\ pc' = "persist"
          /\ UNCHANGED <<error, result, vs_files>>
       \/ /\ Raise("EmbeddingError")
          /\ vs_files' = PersistFiles(vs_files,
                BuildIndex(ChunkPolicy(USE_LLAMAPARSE), augmented_documents, heap), 1)
          /\ UNCHANGED index
    /\ UNCHANGED <<name_vars, chat_vars, extra_vars, USE_LLAMAPARSE,
                   LLAMA_CLOUD_API_KEY, data_dir, vs_exists,
                   strategy, documents, augmented_documents, heap,
                   build_calls, load_failed, dir_at_call, parsed_snapshot, calls>>

\* engine.py:155-177  chunk and embed into an index, or the embedding raises
CreateIndex ==
    /\ pc = "index"
    /\ stages' = Append(stages, "chunk")
    /\ \/ /\ index' = BuildIndex(ChunkPolicy(USE_LLAMAPARSE), augmented_documents, heap)
          /\ pc' = "persist"
          /\ UNCHANGED <<error, result>>
       \/ /\ Raise("EmbeddingError")
          /\ UNCHANGED index
    /\ UNCHANGED <<name_vars, chat_vars, extra_vars, USE_LLAMAPARSE,
                   LLAMA_CLOUD_API_KEY, data_dir, vs_exists,
                   vs_files, strategy, documents, augmented_documents, heap,
                   build_calls, load_failed, dir_at_call, parsed_snapshot, calls>>

\* engine.py:182-185  persist, then return the index; a persist that raises
\* has written the files before the one that failed
Persist ==
    /\ pc = "persist"
    /\ stages' = Append(stages, "persist")
    /\ \/ /\ vs_files' = PersistFiles(vs_files, index, Len(IndexFileSeq))
          /\ result' = index
          /\ pc' = "returned"
          /\ UNCHANGED error
       \/ /\ \E k \in 0..(Len(IndexFileSeq) - 1) :
                vs_files' = PersistFiles(vs_files, index, k)
          /\ Raise("PersistError")
    /\ UNCHANGED <<name_vars, chat_vars, extra_vars, USE_LLAMAPARSE,
                   LLAMA_CLOUD_API_KEY, data_dir, vs_exists,
                   strategy, documents, augmented_documents, heap, index,
                   build_calls, load_failed, dir_at_call, parsed_snapshot, calls>>

\* The index an earlier run of the build persisted from the same data.
IndexBuiltFrom(data, toggle) ==
    LET a == Allocate(<<>>, data, <<>>)
        r == InjectAll(a.heap, a.out, <<>>)
    IN BuildIndex(ChunkPolicy(toggle), r.out, r.heap)

BuilderInit ==
    /\ USE_LLAMAPARSE \in BOOLEAN
    /\ LLAMA_CLOUD_API_KEY \in BOOLEAN
    /\ data_dir \in SeqsUpTo(SourceDocs, MaxDocs)
    /\ \/ /\ vs_exists = FALSE
          /\ vs_files = [f \in Files |-> Absent]
       \/ /\ vs_exists = TRUE
          /\ vs_files \in [Files -> {Absent, Garbage}]
       \/ /\ data_dir # <<>>
          /\ vs_exists = TRUE
          /\ vs_files = PersistFiles([f \in Files |-> Absent],
                            IndexBuiltFrom(data_dir, USE_LLAMAPARSE),
                            Len(IndexFileSeq))
    /\ pc = "idle"
    /\ strategy = "none"
    /\ documents = <<>>
    /\ augmented_documents = <<>>
    /\ heap = <<>>
    /\ index = NoIndex
    /\ result = NoIndex
    /\ error = "none"
    /\ stages = <<>>
    /\ build_calls = 0
    /\ load_failed = FALSE
    /\ dir_at_call = vs_files
    /\ parsed_snapshot = <<>>
    /\ calls = 0

\* The builder at rest, for the specifications that do not run it.
BuilderIdle ==
    /\ USE_LLAMAPARSE = TRUE
    /\ LLAMA_CLOUD_API_KEY = FALSE
    /\ data_dir = <<>>
    /\ vs_exists = FALSE
    /\ vs_files = [f \in Files |-> Absent]
    /\ pc = "idle"
    /\ strategy = "none"
    /\ documents = <<>>
    /\ augmented_documents = <<>>
    /\ heap = <<>>
    /\ index = NoIndex
    /\ result = NoIndex
    /\ error = "none"
    /\ stages = <<>>
    /\ build_calls = 0
    /\ load_failed = FALSE
    /\ dir_at_call = vs_files
    /\ parsed_snapshot = <<>>
    /\ calls = 0

NameIdle ==
    /\ filename_in = <<>>
    /\ store_name_out = <<>>
    /\ name_pc = "pending"

\* app.py:241-244  the history of a fresh session: the greeting
GREETING == <<"H","a","l","l","o","!">>

ChatIdle ==
    /\ messages = <<[role |-> "assistant", content |-> GREETING]>>
    /\ messages_before = messages
    /\ turn_pc = "idle"
    /\ stream = <<>>
    /\ full_response = <<>>
    /\ turns = 0

NoEngine == [kind |-> "none"]

\* The construction not begun, with a credential in the environment.
StartupIdle ==
    /\ GOOGLE_API_KEY = "set"
    /\ startup_pc = "start"
    /\ llm = "none"
    /\ embed_model = "none"
    /\ embed_cache_exists = FALSE
    /\ chat_engine = NoEngine
    /\ startup_error = "none"

Sessions == 1..MaxSessions

\* No UI session has run main() yet.
SessionsIdle ==
    /\ engine_cache = 0
    /\ engines = <<>>
    /\ sess_engine = [s \in Sessions |-> 0]
    /\ sess_pc = [s \in Sessions |-> "new"]
    /\ sess_prompt = [s \in Sessions |-> <<>>]
    /\ sess_own = [s \in Sessions |-> <<>>]

Init == BuilderInit /\ NameIdle /\ ChatIdle /\ StartupIdle /\ SessionsIdle

Next ==
    \/ GetVectorStore
    \/ LoadReturns
    \/ LoadRaises
    \/ Parse
    \/ CheckDocuments
    \/ Inject
    \/ CreateIndex
    \/ Persist

Spec == Init /\ [][Next]_vars

\* ------------------------------------------------- store names (SpecName)
\* File names are put together from a stem and up to MaxParts - 1 further
\* pieces, so that an extension can sit at the end, in the middle, or twice.
NameStems == { <<"a","l","d","i">>, <<"k">> }
NameParts == NameStems \cup { DOT_PDF, DOT_MD, <<".","P","D","F">> }

RECURSIVE Concat(_)
Concat(parts) == IF parts = <<>> THEN <<>> ELSE Head(parts) \o Concat(Tail(parts))

FileNames ==
    { Concat(q) : q \in {r \in SeqsUpTo(NameParts, MaxParts) :
                            Len(r) >= 1 /\ r[1] \in NameStems} }

\* engine.py:127-128 applied to one file name
DeriveStoreName ==
    /\ name_pc = "pending"
    /\ store_name_out' = StoreNameOf(FileNameOf([k \in {"file_name"} |-> filename_in]))
    /\ name_pc' = "derived"
    /\ UNCHANGED <<builder_vars, chat_vars, extra_vars, filename_in>>

NameInit ==
    /\ BuilderIdle
    /\ ChatIdle
    /\ StartupIdle
    /\ SessionsIdle
    /\ filename_in \in FileNames
    /\ store_name_out = <<>>
    /\ name_pc = "pending"

NameNext == DeriveStoreName

SpecName == NameInit /\ [][NameNext]_vars

\* ------------------------------------------------- the chat turn (SpecChat)
Prompts == { <<"q">>, <<"w","o">> }
Increments == { <<"a">>, <<"b","c">> }

\* app.py:252-256  the prompt is appended to the session's history
SubmitPrompt ==
    /\ turn_pc \in {"idle", "failed", "stopped"}
    /\ turns < MaxTurns
    /\ turns' = turns + 1
    /\ \E prompt \in Prompts :
          messages' = Append(messages, [role |-> "user", content |-> prompt])
    /\ messages_before' = messages
    /\ stream' = <<>>
    /\ full_response' = <<>>
    /\ turn_pc' = "stream_chat"
    /\ UNCHANGED <<builder_vars, name_vars, extra_vars>>

\* app.py:262  chat_engine.stream_chat(prompt) returns the streaming response
StreamChatReturns ==
    /\ turn_pc = "stream_chat"
    /\ stream' \in SeqsUpTo(Increments, MaxTokens)
    /\ full_response' = <<>>
    /\ turn_pc' = "draining"
    /\ UNCHANGED <<builder_vars, name_vars, extra_vars, messages, messages_before, turns>>

\* app.py:262  the generation call raises: the exception leaves main()
StreamChatRaises ==
    /\ turn_pc = "stream_chat"
    /\ turn_pc' = "failed"
    /\ UNCHANGED <<builder_vars, name_vars, extra_vars, messages, messages_before, stream,
                   full_response, turns>>

\* app.py:268-270  one increment drained
DrainToken ==
    /\ turn_pc = "draining"
    /\ stream # <<>>
    /\ full_response' = full_response \o Head(stream)
    /\ stream' = Tail(stream)
    /\ UNCHANGED <<builder_vars, name_vars, extra_vars, messages, messages_before, turn_pc,
                   turns>>

\* app.py:268  the generator raises while being drained
DrainRaises ==
    /\ turn_pc = "draining"
    /\ stream # <<>>
    /\ turn_pc' = "failed"
    /\ UNCHANGED <<builder_vars, name_vars, extra_vars, messages, messages_before, stream,
                   full_response, turns>>

\* app.py:268  the script run is stopped before the stream is drained (the
\* session is torn down or the page reruns)
StopDraining ==
    /\ turn_pc = "draining"
    /\ stream # <<>>
    /\ turn_pc' = "stopped"
    /\ UNCHANGED <<builder_vars, name_vars, extra_vars, messages, messages_before, stream,
                   full_response, turns>>

\* app.py:273-274  the drained answer is appended to the history
Finalize ==
    /\ turn_pc = "draining"
    /\ stream = <<>>
    /\ messages' = Append(messages, [role |-> "assistant", content |-> full_response])
    /\ turn_pc' = "idle"
    /\ UNCHANGED <<builder_vars, name_vars, extra_vars, messages_before, stream,
                   full_response, turns>>

ChatInit == BuilderIdle /\ NameIdle /\ ChatIdle /\ StartupIdle /\ SessionsIdle

ChatNext ==
    \/ SubmitPrompt
    \/ StreamChatReturns
    \/ StreamChatRaises
    \/ DrainToken
    \/ DrainRaises
    \/ StopDraining
    \/ Finalize

SpecChat == ChatInit /\ [][ChatNext]_vars

\* ------------------------------------- session construction (SpecStartup)
SIMILARITY_TOP_K == 50
CHAT_MEMORY_TOKEN_LIMIT == 3900

\* A variant of the test that only asks whether the variable is set.
KeyIsSet(key) == key # "unset"

\* model_loader.py:48  `not api_key` is false only for a non-empty string
KeyTruthy(key) == key = "set"

\* model_loader.py:46-61  initialise_llm
InitialiseLlm ==
    /\ startup_pc = "start"
    /\ IF KeyTruthy(GOOGLE_API_KEY)
       THEN /\ llm' = "GoogleGenAI"
            /\ startup_pc' = "embed"
            /\ UNCHANGED startup_error
       ELSE /\ startup_error' = "ValueError"
            /\ startup_pc' = "failed"
            /\ UNCHANGED llm
    /\ UNCHANGED <<builder_vars, name_vars, chat_vars, session_vars,
                   GOOGLE_API_KEY, embed_model, embed_cache_exists, chat_engine>>

\* model_loader.py:64-84  get_embedding_model: the cache directory is made,
\* then the model is loaded, or loading it raises
GetEmbeddingModel ==
    /\ startup_pc = "embed"
    /\ embed_cache_exists' = TRUE
    /\ \/ /\ embed_model' = "HuggingFaceEmbedding"
          /\ startup_pc' = "engine"
          /\ UNCHANGED startup_error
       \/ /\ startup_error' = "EmbeddingLoadError"
          /\ startup_pc' = "failed"
          /\ UNCHANGED embed_model
    /\ UNCHANGED <<builder_vars, name_vars, chat_vars, session_vars,
                   GOOGLE_API_KEY, llm, chat_engine>>

\* engine.py:238  get_chat_engine calls get_vector_store
StartupGetVectorStore ==
    /\ startup_pc = "engine"
    /\ pc = "idle"
    /\ GetVectorStore

\* engine.py:241-255  the memory and the chat engine over the returned index
AsChatEngine ==
    /\ startup_pc = "engine"
    /\ pc = "returned"
    /\ chat_engine' = [kind |-> "engine", index |-> result, memory |-> <<>>,
                       token_limit |-> CHAT_MEMORY_TOKEN_LIMIT,
                       similarity_top_k |-> SIMILARITY_TOP_K, llm |-> llm]
    /\ startup_pc' = "ready"
    /\ UNCHANGED <<builder_vars, name_vars, chat_vars, session_vars,
                   GOOGLE_API_KEY, llm, embed_model, embed_cache_exists,
                   startup_error>>

\* engine.py:238  get_vector_store raised: the error leaves get_chat_engine
GetChatEngineRaises ==
    /\ startup_pc = "engine"
    /\ pc = "raised"
    /\ startup_error' = error
    /\ startup_pc' = "failed"
    /\ UNCHANGED <<builder_vars, name_vars, chat_vars, session_vars,
                   GOOGLE_API_KEY, llm, embed_model, embed_cache_exists,
                   chat_engine>>

StartupInit ==
    /\ BuilderInit
    /\ NameIdle
    /\ ChatIdle
    /\ SessionsIdle
    /\ GOOGLE_API_KEY \in {"unset", "empty", "set"}
    /\ startup_pc = "start"
    /\ llm = "none"
    /\ embed_model = "none"
    /\ embed_cache_exists \in BOOLEAN
    /\ chat_engine = NoEngine
    /\ startup_error = "none"

StartupNext ==
    \/ InitialiseLlm
    \/ GetEmbeddingModel
    \/ StartupGetVectorStore
    \/ LoadReturns
    \/ LoadRaises
    \/ Parse
    \/ CheckDocuments
    \/ Inject
    \/ CreateIndex
    \/ Persist
    \/ AsChatEngine
    \/ GetChatEngineRaises

SpecStartup == StartupInit /\ [][StartupNext]_vars

\* ------------------------------------------ UI sessions (SpecSessions)
ANSWER == <<"a">>

\* app.py:201-210  @st.cache_resource on load_rag_engine, which takes no
\* argument: the first call builds the engine (with the one memory of
\* engine.py:241-243) and every later call, of any session, gets that object.
CachedEngine(cache, built) == IF cache = 0 THEN Len(built) + 1 ELSE cache

\* Context Chat Session, step 6: a completed turn appends the user message
\* and the final answer to the engine's memory.
MemoryPut(memory, prompt, answer) ==
    Append(Append(memory, [role |-> "user", content |-> prompt]),
           [role |-> "assistant", content |-> answer])

\* app.py:232-238  main() of a session obtains the chat engine
LoadRagEngine(s) ==
    /\ sess_pc[s] = "new"
    /\ LET e == CachedEngine(engine_cache, engines)
       IN /\ engines' = IF e > Len(engines) THEN Append(engines, <<>>) ELSE engines
          /\ engine_cache' = e
          /\ sess_engine' = [sess_engine EXCEPT ![s] = e]
    /\ sess_pc' = [sess_pc EXCEPT ![s] = "idle"]
    /\ UNCHANGED <<builder_vars, name_vars, chat_vars, startup_vars,
                   sess_prompt, sess_own>>

\* app.py:252-262  a session sends a prompt to the engine it holds
SessStreamChat(s) ==
    /\ sess_pc[s] = "idle"
    /\ Len(sess_own[s]) < 2 * MaxSessionTurns
    /\ \E prompt \in Prompts : sess_prompt' = [sess_prompt EXCEPT ![s] = prompt]
    /\ sess_pc' = [sess_pc EXCEPT ![s] = "streaming"]
    /\ UNCHANGED <<builder_vars, name_vars, chat_vars, startup_vars,
                   engine_cache, engines, sess_engine, sess_own>>

\* app.py:268-274  the stream is drained: the turn is complete
SessTurnCompletes(s) ==
    /\ sess_pc[s] = "streaming"
    /\ engines' = [engines EXCEPT ![sess_engine[s]] =
                      MemoryPut(@, sess_prompt[s], ANSWER)]
    /\ sess_own' = [sess_own EXCEPT ![s] = MemoryPut(@, sess_prompt[s], ANSWER)]
    /\ sess_pc' = [sess_pc EXCEPT ![s] = "idle"]
    /\ UNCHANGED <<builder_vars, name_vars, chat_vars, startup_vars,
                   engine_cache, sess_engine, sess_prompt>>

\* app.py:262-268  the turn fails or is abandoned: nothing is completed
SessTurnFails(s) ==
    /\ sess_pc[s] = "streaming"
    /\ sess_pc' = [sess_pc EXCEPT ![s] = "idle"]
    /\ UNCHANGED <<builder_vars, name_vars, chat_vars, startup_vars,
                   engine_cache, engines, sess_engine, sess_prompt, sess_own>>

SessionsInit == BuilderIdle /\ NameIdle /\ ChatIdle /\ StartupIdle /\ SessionsIdle

SessionsNext ==
    \/ \E s \in Sessions : LoadRagEngine(s)
    \/ \E s \in Sessions : SessStreamChat(s)
    \/ \E s \in Sessions : SessTurnCompletes(s)
    \/ \E s \in Sessions : SessTurnFails(s)

SpecSessions == SessionsInit /\ [][SessionsNext]_vars

\* ------------------------------------------------------------- properties
Has(seq, x) == \E i \in 1..Len(seq) : seq[i] = x

Count(seq, x) == Cardinality({i \in 1..Len(seq) : seq[i] = x})

\* occurrences of p in s, counted at every position
Occurrences(s, p) ==
    Cardinality({i \in 1..(Len(s) - Len(p) + 1) : SubSeq(s, i, i + Len(p) - 1) = p})

DirEmpty(files) == \A f \in Files : files[f].kind = "absent"

Injected == Has(stages, "inject")

\* C1: a call takes the load path exactly when the directory held at least one
\* entry when the call began, and the build path when it was missing or empty;
\* a call that returned from a successful load returned the persisted index
\* and never entered _create_new_vector_store.
C1_DispatchOnDirectory ==
    /\ pc # "idle" =>
          /\ stages[1] = "load" <=> ~DirEmpty(dir_at_call)
          /\ stages[1] = "build" <=> DirEmpty(dir_at_call)
    /\ (pc = "returned" /\ stages[1] = "load" /\ ~load_failed) =>
          /\ build_calls = 0
          /\ ~Has(stages, "build")
          /\ stages = <<"load">>
          /\ result = LoadedIndex(dir_at_call)
          /\ result.kind = "index"

C1_Witness == pc = "returned" /\ stages = <<"load">> /\ ~load_failed

\* C2: in one call the build path runs at most once; a load that raised is
\* followed by exactly one entry into _create_new_vector_store; and a call
\* whose (re)build failed has ended with the error, without another build.
C2_OneRebuildPerCall ==
    /\ build_calls <= 1
    /\ Count(stages, "build") = build_calls
    /\ Count(stages, "load") <= 1
    /\ load_failed => build_calls = 1
    /\ pc = "raised" => /\ error # "none"
                        /\ result = NoIndex
                        /\ build_calls = 1

C2_Witness == pc = "raised" /\ load_failed /\ build_calls = 1

C4_NoDocumentsFailsEarly ==
    (Has(stages, "parse") /\ documents = <<>>) =>
        /\ pc \in {"check", "raised"}
        /\ pc = "raised" => error = "ValueError"
        /\ ~Has(stages, "inject")
        /\ ~Has(stages, "chunk")
        /\ ~Has(stages, "persist")
        /\ augmented_documents = <<>>
        /\ index = NoIndex
        /\ result = NoIndex
        /\ vs_files = dir_at_call

C4_Witness == pc = "raised" /\ error = "ValueError" /\ documents = <<>>

\* C5: the index of a build is chunked with the Markdown split exactly when the
\* markup-emitting remote parser produced the Documents, and with the
\* fixed-window split (CHUNK_SIZE, CHUNK_OVERLAP) whenever the baseline parser did.
C5_ChunkingMatchesParser ==
    index.kind = "index" =>
        /\ index.policy.splitter = "markdown" <=> strategy = "llamaparse"
        /\ strategy = "standard" =>
              index.policy = [splitter |-> "sentence", chunk_size |-> CHUNK_SIZE,
                              chunk_overlap |-> CHUNK_OVERLAP]

\* C6: every Document handed to the chunker has as content the store marker,
\* the StoreName of its file name, a blank line and the parser's text as the
\* suffix; its metadata's store_name is that StoreName; and there is one
\* injected Document per parsed Document, holding the marker exactly once.
C6_InjectedContent ==
    Injected =>
        /\ Len(augmented_documents) = Len(parsed_snapshot)
        /\ \A i \in 1..Len(augmented_documents) :
            LET d == augmented_documents[i]
                orig == parsed_snapshot[i]
                sn == StoreNameOf(FileNameOf(orig.metadata))
            IN /\ d.text = STORE_MARKER \o sn \o NEWLINES \o orig.text
               /\ EndsWith(d.text, orig.text)
               /\ "store_name" \in DOMAIN heap[d.meta]
               /\ heap[d.meta]["store_name"] = sn
               /\ Occurrences(d.text, STORE_MARKER) = 1
               /\ index.kind = "index" =>
                     index.nodes[i] = [text |-> d.text, metadata |-> heap[d.meta]]

C6_Witness == pc = "persist" /\ Len(augmented_documents) >= 2

UNKNOWN_UPPER == <<"U","N","K","N","O","W","N">>

NoFileName(i) == "file_name" \notin DOMAIN parsed_snapshot[i].metadata

\* C8 (as amended): a Document without a file_name entry is injected without
\* an error, and its store name is "UNKNOWN", the fallback "Unknown" put
\* through the same uppercasing as every file name, in the text and in
\* store_name alike.
C8_MissingFilenameUpper ==
    Injected =>
        /\ pc = "index" => error = "none"
        /\ \A i \in 1..Len(parsed_snapshot) : NoFileName(i) =>
              /\ augmented_documents[i].text =
                    STORE_MARKER \o UNKNOWN_UPPER \o NEWLINES \o parsed_snapshot[i].text
              /\ heap[augmented_documents[i].meta]["store_name"] = UNKNOWN_UPPER

C8_Witness == pc = "index" /\ \E i \in 1..Len(parsed_snapshot) : NoFileName(i)

\* C8 as stated: the store name of such a Document is the literal "Unknown".
C8_MissingFilenameLiteral ==
    Injected =>
        \A i \in 1..Len(parsed_snapshot) : NoFileName(i) =>
              /\ augmented_documents[i].text =
                    STORE_MARKER \o UNKNOWN_DEFAULT \o NEWLINES \o parsed_snapshot[i].text
              /\ heap[augmented_documents[i].meta]["store_name"] = UNKNOWN_DEFAULT


\* the position of the last "." of s that is not its first character, or 0
LastDot(s) ==
    LET dots == {i \in 2..Len(s) : s[i] = "."}
    IN IF dots = {} THEN 0 ELSE CHOOSE i \in dots : \A j \in dots : j <= i

\* the file name without its extension: the trailing suffix from the last "."
StripExtension(s) == IF LastDot(s) = 0 THEN s ELSE SubSeq(s, 1, LastDot(s) - 1)

\* C9: the derived StoreName is the file name with its extension (the trailing
\* suffix only) stripped and the remainder uppercased: nothing of the
\* extension is kept and nothing before it is lost.
C9_StoreNameIsStemUppercased ==
    name_pc = "derived" =>
        store_name_out = StrUpper(StripExtension(filename_in))

\* C10: a turn that ended in a failed generation call, or whose stream was not
\* drained to the end, leaves the recorded conversation as it was before the
\* turn, and no user message is recorded without its answer.
C10_FailedTurnLeavesHistory ==
    turn_pc \in {"failed", "stopped"} =>
        /\ messages = messages_before
        /\ messages[Len(messages)].role = "assistant"


\* C15: a call that rebuilt after a failed load and returned leaves in the
\* directory only what the new build wrote: every index file holds the new
\* index and no other entry of the state that failed to load is left.
C15_RebuildDiscardsOldState ==
    (pc = "returned" /\ load_failed) =>
        vs_files = [f \in Files |-> IF f \in IndexFiles THEN result ELSE Absent]

FailedBeforePersist == pc = "raised" /\ ~Has(stages, "persist")

\* C16: a call whose build or rebuild failed before persisting leaves the
\* entries of the directory exactly as the call found them; the next call finds
\* the same entries and dispatches the same way (build again on an empty
\* directory, load again on a populated one), and the load of a directory that
\* is no complete index always ends in the rebuild.
C16_FailedBuildLeavesDirectory ==
    /\ [](FailedBeforePersist => vs_files = dir_at_call)
    /\ [][(FailedBeforePersist /\ calls' = calls + 1) =>
             /\ dir_at_call' = dir_at_call
             /\ stages'[1] = stages[1]
             /\ DirEmpty(dir_at_call') <=> DirEmpty(dir_at_call)
             /\ Loadable(dir_at_call') <=> Loadable(dir_at_call)]_vars
    /\ [][(pc = "load" /\ ~Loadable(vs_files)) =>
             (pc' = "parse" /\ load_failed' /\ vs_files' = vs_files)]_vars

C16_Witness ==
    /\ calls >= 2
    /\ pc = "raised"
    /\ error = "EmbeddingError"
    /\ load_failed
    /\ ~Loadable(dir_at_call)


\* C13: with GOOGLE_API_KEY unset or empty the construction is either not yet
\* begun or has failed with ValueError at its first step: no language-model
\* handle, no embedding model (nor its cache directory made), no call of
\* get_vector_store (no load, no build, the directory untouched) and no chat
\* engine.
C13_MissingCredentialFailsFirst ==
    ~(GOOGLE_API_KEY = "set") =>
        /\ startup_pc \in {"start", "failed"}
        /\ startup_pc = "failed" => startup_error = "ValueError"
        /\ llm = "none"
        /\ embed_model = "none"
        /\ pc = "idle"
        /\ calls = 0
        /\ stages = <<>>
        /\ build_calls = 0
        /\ index = NoIndex
        /\ result = NoIndex
        /\ vs_files = dir_at_call
        /\ chat_engine = NoEngine

C13_Witness ==
    /\ GOOGLE_API_KEY = "empty"
    /\ startup_pc = "failed"
    /\ startup_error = "ValueError"


\* C12: every UI session has a ConversationMemory of its own: the memory a
\* session's engine holds is exactly the turns that session completed (a turn
\* completed elsewhere never shows in it), and no two sessions have a turn in
\* flight on the same memory at once.
C12_SessionsHaveOwnMemory ==
    /\ \A s \in Sessions :
          sess_engine[s] # 0 => engines[sess_engine[s]] = sess_own[s]
    /\ \A s, t \in Sessions :
          (s # t /\ sess_pc[s] = "streaming" /\ sess_pc[t] = "streaming") =>
              sess_engine[s] # sess_engine[t]

====
